---- MODULE Spec2Model ----
(***************************************************************************)
(* The UDF callback type aliases of src/src/tmp.c.                         *)
(*                                                                         *)
(* The file holds eight declarations and nothing else, each of the form    *)
(*     typedef <return type> ( * <alias> )( <parameter types> );          *)
(* The model holds the file's text as its sequence of C tokens and reads   *)
(* it the way a C front end reads a declaration: one token per step,       *)
(* building the declaration under construction (cur) and appending it to   *)
(* the list of declarations (decls) at its semicolon.  What a declaration  *)
(* means (return type, parameter count, order and types) is therefore      *)
(* computed from the tokens, not written down beside them.                 *)
(***************************************************************************)
EXTENDS Naturals, Sequences, FiniteSets

VARIABLES pos, phase, cur, decls, typeRefs

vars == <<pos, phase, cur, decls, typeRefs>>

(***************************************************************************)
(* The text of the file, token by token.                                   *)
(***************************************************************************)

\* Variant: clear declared with the argument list, like add.
DeclClearWithArgs ==
    << "typedef", "void", "(", "*", "Udf_func_clear", ")", "(",
       "UDF_INIT", "*", ",", "UDF_ARGS", "*", ",", "unsigned", "char", "*", ",",
       "unsigned", "char", "*", ")", ";" >>

\* line 1
DeclClear ==
    << "typedef", "void", "(", "*", "Udf_func_clear", ")", "(",
       "UDF_INIT", "*", ",", "unsigned", "char", "*", ",",
       "unsigned", "char", "*", ")", ";" >>

\* Variant: add declared with its first two parameters exchanged.
DeclAddArgsFirst ==
    << "typedef", "void", "(", "*", "Udf_func_add", ")", "(",
       "UDF_ARGS", "*", ",", "UDF_INIT", "*", ",", "unsigned", "char", "*", ",",
       "unsigned", "char", "*", ")", ";" >>

\* lines 2-3
DeclAdd ==
    << "typedef", "void", "(", "*", "Udf_func_add", ")", "(",
       "UDF_INIT", "*", ",", "UDF_ARGS", "*", ",", "unsigned", "char", "*", ",",
       "unsigned", "char", "*", ")", ";" >>

\* Variant: deinit declared with a boolean return, like init.
DeclDeinitReturningBool ==
    << "typedef", "bool", "(", "*", "Udf_func_deinit", ")", "(",
       "UDF_INIT", "*", ")", ";" >>

\* line 5
DeclDeinit ==
    << "typedef", "void", "(", "*", "Udf_func_deinit", ")", "(",
       "UDF_INIT", "*", ")", ";" >>

\* Variant: init declared without its message buffer.
DeclInitNoMessage ==
    << "typedef", "bool", "(", "*", "Udf_func_init", ")", "(",
       "UDF_INIT", "*", ",", "UDF_ARGS", "*", ")", ";" >>

\* line 6
DeclInit ==
    << "typedef", "bool", "(", "*", "Udf_func_init", ")", "(",
       "UDF_INIT", "*", ",", "UDF_ARGS", "*", ",", "char", "*", ")", ";" >>

\* line 7
DeclAny ==
    << "typedef", "void", "(", "*", "Udf_func_any", ")", "(", "void", ")", ";" >>

\* Variant: double declared with a single unsigned char pointer.
DeclDoubleOneFlag ==
    << "typedef", "double", "(", "*", "Udf_func_double", ")", "(",
       "UDF_INIT", "*", ",", "UDF_ARGS", "*", ",", "unsigned", "char", "*", ")", ";" >>

\* lines 9-10
DeclDouble ==
    << "typedef", "double", "(", "*", "Udf_func_double", ")", "(",
       "UDF_INIT", "*", ",", "UDF_ARGS", "*", ",", "unsigned", "char", "*", ",",
       "unsigned", "char", "*", ")", ";" >>

\* Variant: longlong declared with a length parameter, like string.
DeclLonglongWithLength ==
    << "typedef", "long", "long", "(", "*", "Udf_func_longlong", ")", "(",
       "UDF_INIT", "*", ",", "UDF_ARGS", "*", ",", "unsigned", "long", "*", ",",
       "unsigned", "char", "*", ",", "unsigned", "char", "*", ")", ";" >>

\* lines 11-12
DeclLonglong ==
    << "typedef", "long", "long", "(", "*", "Udf_func_longlong", ")", "(",
       "UDF_INIT", "*", ",", "UDF_ARGS", "*", ",", "unsigned", "char", "*", ",",
       "unsigned", "char", "*", ")", ";" >>

\* Variant: string declared without its char pointer parameter, the length
\* first among the trailing pointers.
DeclStringFiveParams ==
    << "typedef", "char", "*", "(", "*", "Udf_func_string", ")", "(",
       "UDF_INIT", "*", ",", "UDF_ARGS", "*", ",",
       "unsigned", "long", "*", ",", "unsigned", "char", "*", ",",
       "unsigned", "char", "*", ")", ";" >>

\* Variant: string declared with the length before the char pointer.
DeclStringLengthFirst ==
    << "typedef", "char", "*", "(", "*", "Udf_func_string", ")", "(",
       "UDF_INIT", "*", ",", "UDF_ARGS", "*", ",", "unsigned", "long", "*", ",",
       "char", "*", ",", "unsigned", "char", "*", ",",
       "unsigned", "char", "*", ")", ";" >>

\* lines 13-15
DeclString ==
    << "typedef", "char", "*", "(", "*", "Udf_func_string", ")", "(",
       "UDF_INIT", "*", ",", "UDF_ARGS", "*", ",", "char", "*", ",",
       "unsigned", "long", "*", ",", "unsigned", "char", "*", ",",
       "unsigned", "char", "*", ")", ";" >>

Source ==
    DeclClear \o DeclAdd \o DeclDeinit \o DeclInit \o DeclAny
        \o DeclDouble \o DeclLonglong \o DeclString

(***************************************************************************)
(* Token classes.                                                          *)
(***************************************************************************)

\* The C type specifier keywords the file uses.
TypeKeywords == {"void", "bool", "double", "long", "char", "unsigned"}

\* The two type names the file uses and does not declare.
ExternalTypeNames == {"UDF_INIT", "UDF_ARGS"}

Punctuation == {"(", ")", "*", ",", ";"}

\* The names declared so far: a typedef name is a type name from then on.
DeclaredNames(ds) == {ds[i].name : i \in 1..Len(ds)}

IsTypeName(t, ds) == t \in ExternalTypeNames \cup DeclaredNames(ds)

IsTypeWord(t, ds) == t \in TypeKeywords \/ IsTypeName(t, ds)

IsIdentifier(t) == t \notin TypeKeywords \cup Punctuation \cup {"typedef"}

(***************************************************************************)
(* Types and declarations.                                                 *)
(***************************************************************************)

\* A type: its specifier words in order, and how many * follow them.
Type(words, stars) == [spec |-> words, ptr |-> stars]

NoType == Type(<<>>, 0)

EmptyDecl(storage) ==
    [storage |-> storage, ret |-> NoType, name |-> "", params |-> <<>>,
     par |-> NoType]

AddWord(t, w) == [t EXCEPT !.spec = Append(@, w)]

AddStar(t) == [t EXCEPT !.ptr = @ + 1]

\* Variant: void read as the type of one parameter.
CloseParamsKeepVoid(params, par) == Append(params, par)

\* A parameter list that is the single word void declares no parameter.
CloseParams(params, par) ==
    IF params = <<>> /\ par = Type(<<"void">>, 0)
    THEN <<>>
    ELSE Append(params, par)

(***************************************************************************)
(* Reading the file.                                                       *)
(***************************************************************************)

More == pos <= Len(Source)

tok == Source[pos]

Init ==
    /\ pos = 1
    /\ phase = "start"
    /\ cur = EmptyDecl("")
    /\ decls = <<>>
    /\ typeRefs = {}

\* typedef: a declaration of a type alias begins.
Typedef ==
    /\ More /\ phase = "start" /\ tok = "typedef"
    /\ cur' = EmptyDecl("typedef")
    /\ phase' = "ret"
    /\ pos' = pos + 1
    /\ UNCHANGED <<decls, typeRefs>>

\* A type specifier word, in the return type or in a parameter's type.  At
\* the start of a declaration it begins a declaration that is no typedef.
TypeWord ==
    /\ More /\ phase \in {"start", "ret", "param"} /\ IsTypeWord(tok, decls)
    /\ cur' = CASE phase = "start" ->
                     [EmptyDecl("none") EXCEPT !.ret = AddWord(@, tok)]
                [] phase = "ret" -> [cur EXCEPT !.ret = AddWord(@, tok)]
                [] phase = "param" -> [cur EXCEPT !.par = AddWord(@, tok)]
    /\ phase' = IF phase = "start" THEN "ret" ELSE phase
    /\ typeRefs' = IF IsTypeName(tok, decls) THEN typeRefs \cup {tok} ELSE typeRefs
    /\ pos' = pos + 1
    /\ UNCHANGED decls

\* A star: a pointer level of the type being read, or the star before the
\* alias in the declarator.
Star ==
    /\ More /\ phase \in {"ret", "param", "declarator"} /\ tok = "*"
    /\ cur' = CASE phase = "ret" -> [cur EXCEPT !.ret = AddStar(@)]
                [] phase = "param" -> [cur EXCEPT !.par = AddStar(@)]
                [] phase = "declarator" -> cur
    /\ phase' = IF phase = "declarator" THEN "name" ELSE phase
    /\ pos' = pos + 1
    /\ UNCHANGED <<decls, typeRefs>>

\* An opening parenthesis: of the declarator, then of the parameter list.
LParen ==
    /\ More /\ phase \in {"ret", "open"} /\ tok = "("
    /\ phase' = IF phase = "ret" THEN "declarator" ELSE "param"
    /\ pos' = pos + 1
    /\ UNCHANGED <<cur, decls, typeRefs>>

\* The alias being declared.
Name ==
    /\ More /\ phase = "name" /\ IsIdentifier(tok)
    /\ cur' = [cur EXCEPT !.name = tok]
    /\ phase' = "close"
    /\ pos' = pos + 1
    /\ UNCHANGED <<decls, typeRefs>>

\* A comma: the parameter read so far is complete and another follows.
Comma ==
    /\ More /\ phase = "param" /\ tok = ","
    /\ cur.par # NoType
    /\ cur' = [cur EXCEPT !.params = Append(@, cur.par), !.par = NoType]
    /\ pos' = pos + 1
    /\ UNCHANGED <<phase, decls, typeRefs>>

\* A closing parenthesis: of the declarator, then of the parameter list.
RParen ==
    /\ More /\ phase \in {"close", "param"} /\ tok = ")"
    /\ phase = "param" => cur.par # NoType
    /\ cur' = IF phase = "param"
              THEN [cur EXCEPT !.params = CloseParams(@, cur.par), !.par = NoType]
              ELSE cur
    /\ phase' = IF phase = "close" THEN "open" ELSE "end"
    /\ pos' = pos + 1
    /\ UNCHANGED <<decls, typeRefs>>

\* A semicolon: the declaration is complete.
Semicolon ==
    /\ More /\ phase = "end" /\ tok = ";"
    /\ decls' = Append(decls, [storage |-> cur.storage, name |-> cur.name,
                               ret |-> cur.ret, params |-> cur.params])
    /\ cur' = EmptyDecl("")
    /\ phase' = "start"
    /\ pos' = pos + 1
    /\ UNCHANGED typeRefs

Next ==
    \/ Typedef
    \/ TypeWord
    \/ Star
    \/ LParen
    \/ Name
    \/ Comma
    \/ RParen
    \/ Semicolon

Spec == Init /\ [][Next]_vars

\* The whole file has been read and every declaration in it completed.
Done == pos = Len(Source) + 1 /\ phase = "start"

(***************************************************************************)
(* Vocabulary of the properties.                                           *)
(***************************************************************************)

AliasNames ==
    {"Udf_func_clear", "Udf_func_add", "Udf_func_deinit", "Udf_func_init",
     "Udf_func_any", "Udf_func_double", "Udf_func_longlong", "Udf_func_string"}

Declared(n) == \E i \in 1..Len(decls) : decls[i].name = n

\* Every alias is declared, once.
AllDeclared == Len(decls) = Cardinality(AliasNames) /\ DeclaredNames(decls) = AliasNames

DeclSet == {decls[i] : i \in 1..Len(decls)}

InitPtr == Type(<<"UDF_INIT">>, 1)
ArgsPtr == Type(<<"UDF_ARGS">>, 1)
CharPtr == Type(<<"char">>, 1)
UCharPtr == Type(<<"unsigned", "char">>, 1)
ULongPtr == Type(<<"unsigned", "long">>, 1)
VoidType == Type(<<"void">>, 0)
BoolType == Type(<<"bool">>, 0)
DoubleType == Type(<<"double">>, 0)
LongLongType == Type(<<"long", "long">>, 0)

Positions(params, t) == {i \in 1..Len(params) : params[i] = t}

\* The category of parameter i of a parameter list, from its type and its
\* neighbours.  The parameters are unnamed, so the type is all there is: of
\* the two trailing unsigned char pointers the first is the one the
\* specification calls the result buffer and the second the null flag; a
\* char pointer directly followed by the length is the buffer the length
\* measures, and any other char pointer is the message buffer.
Category(params, i) ==
    CASE params[i] = InitPtr -> "context"
      [] params[i] = ArgsPtr -> "args"
      [] params[i] = ULongPtr -> "length-out"
      [] params[i] = CharPtr ->
            IF i < Len(params) /\ params[i + 1] = ULongPtr
            THEN "char-buffer" ELSE "error-buffer"
      [] params[i] = UCharPtr ->
            IF i > 1 /\ params[i - 1] = UCharPtr
            THEN "null-flag" ELSE "result-buffer"
      [] OTHER -> "other"

Shape(params) == [i \in 1..Len(params) |-> Category(params, i)]

Categories(params) == {Category(params, i) : i \in 1..Len(params)}

ScalarShape == <<"context", "args", "result-buffer", "null-flag">>

\* The table of section 2 of the specification.
TableShape(n) ==
    CASE n = "Udf_func_clear" -> <<"context", "result-buffer", "null-flag">>
      [] n = "Udf_func_add" -> ScalarShape
      [] n = "Udf_func_deinit" -> <<"context">>
      [] n = "Udf_func_init" -> <<"context", "args", "error-buffer">>
      [] n = "Udf_func_any" -> <<>>
      [] n = "Udf_func_double" -> ScalarShape
      [] n = "Udf_func_longlong" -> ScalarShape
      [] n = "Udf_func_string" ->
            <<"context", "args", "length-out", "result-buffer", "null-flag">>
      [] OTHER -> <<"undeclared">>

\* The table with the row of string as the file declares it.
DeclaredShape(n) ==
    IF n = "Udf_func_string"
    THEN <<"context", "args", "char-buffer", "length-out", "result-buffer",
           "null-flag">>
    ELSE TableShape(n)

(***************************************************************************)
(* The properties.                                                         *)
(***************************************************************************)

\* C1, as stated: every alias has the parameter count, order and categories
\* of the table of section 2, string being (context, args, length-out,
\* result-buffer, null-flag).
C1_MatchesTable ==
    /\ \A d \in DeclSet : Shape(d.params) = TableShape(d.name)
    /\ Done => AllDeclared

\* C1, amended: every alias has the parameter count, order and categories of
\* the table of section 2, except string, which has six parameters: (context,
\* args, char buffer, length-out, result-buffer, null-flag).
C1_MatchesTableButString ==
    /\ \A d \in DeclSet : Shape(d.params) = DeclaredShape(d.name)
    /\ Done => AllDeclared

C1_Witness ==
    /\ Done /\ AllDeclared
    /\ \E d \in DeclSet : d.name = "Udf_func_string" /\ Len(d.params) = 6

\* C2, as stated: each of the eight aliases has a first parameter, and it is
\* the UDF_INIT pointer.
C2_ContextFirst ==
    /\ \A d \in DeclSet : Len(d.params) >= 1 /\ d.params[1] = InitPtr
    /\ Done => AllDeclared

\* C2, amended: each alias other than Udf_func_any has a first parameter, and
\* it is the UDF_INIT pointer; Udf_func_any has no parameter at all.
C2_ContextFirstButAny ==
    /\ \A d \in DeclSet :
          IF d.name = "Udf_func_any"
          THEN d.params = <<>>
          ELSE Len(d.params) >= 1 /\ d.params[1] = InitPtr
    /\ \A d \in DeclSet : Positions(d.params, InitPtr) \subseteq {1}
    /\ Done => AllDeclared

C2_Witness ==
    /\ Done /\ AllDeclared
    /\ \E d \in DeclSet : d.name = "Udf_func_any" /\ Len(d.params) = 0
    /\ \E d \in DeclSet : d.name = "Udf_func_add" /\ d.params[1] = InitPtr

\* C3: Udf_func_init returns bool and is the only alias that does; clear, add,
\* deinit (and any) return void; the three remaining aliases return the value
\* they compute (double, long long, char pointer), not a status.
C3_OnlyInitReturnsStatus ==
    /\ \A d \in DeclSet :
          /\ d.ret = BoolType <=> d.name = "Udf_func_init"
          /\ d.name \in {"Udf_func_clear", "Udf_func_add", "Udf_func_deinit",
                         "Udf_func_any"} => d.ret = VoidType
          /\ d.name = "Udf_func_double" => d.ret = DoubleType
          /\ d.name = "Udf_func_longlong" => d.ret = LongLongType
          /\ d.name = "Udf_func_string" => d.ret = CharPtr
    /\ Done => AllDeclared

C3_Witness ==
    /\ Done /\ AllDeclared
    /\ \E d \in DeclSet : d.name = "Udf_func_init" /\ d.ret = BoolType
    /\ \E d \in DeclSet : d.name = "Udf_func_deinit" /\ d.ret = VoidType

\* C4: Udf_func_init has three parameters, UDF_INIT pointer, UDF_ARGS pointer
\* and a plain (not const) char pointer, the message buffer, last; no other
\* alias has a parameter of the message-buffer category.
C4_OnlyInitHasMessageBuffer ==
    /\ \A d \in DeclSet :
          IF d.name = "Udf_func_init"
          THEN /\ d.params = <<InitPtr, ArgsPtr, CharPtr>>
               /\ Category(d.params, 3) = "error-buffer"
          ELSE "error-buffer" \notin Categories(d.params)
    /\ Done => AllDeclared

C4_Witness ==
    /\ Done /\ AllDeclared
    /\ \E d \in DeclSet :
          d.name = "Udf_func_init" /\ Category(d.params, Len(d.params)) = "error-buffer"
    /\ \E d \in DeclSet : d.name = "Udf_func_string" /\ CharPtr \in
                              {d.params[i] : i \in 1..Len(d.params)}

\* C5: double, longlong, string, add and clear each have one result-buffer
\* and one null-flag parameter, the two unsigned char pointers that end the
\* list; deinit, init and any have no unsigned char parameter at all.
C5_ResultAndNullFlag ==
    /\ \A d \in DeclSet :
          IF d.name \in {"Udf_func_double", "Udf_func_longlong", "Udf_func_string",
                         "Udf_func_add", "Udf_func_clear"}
          THEN /\ Len(d.params) >= 2
               /\ Positions(d.params, UCharPtr) = {Len(d.params) - 1, Len(d.params)}
               /\ Category(d.params, Len(d.params) - 1) = "result-buffer"
               /\ Category(d.params, Len(d.params)) = "null-flag"
          ELSE /\ \A i \in 1..Len(d.params) : d.params[i].spec # <<"unsigned", "char">>
               /\ Categories(d.params) \cap {"result-buffer", "null-flag"} = {}
    /\ Done => AllDeclared

C5_Witness ==
    /\ Done /\ AllDeclared
    /\ \E d \in DeclSet :
          d.name = "Udf_func_clear" /\ Positions(d.params, UCharPtr) = {2, 3}
    /\ \E d \in DeclSet :
          d.name = "Udf_func_init" /\ Positions(d.params, UCharPtr) = {}

\* C6: Udf_func_string has exactly one unsigned long pointer parameter, the
\* length-out, and no other alias has an unsigned long parameter.
C6_OnlyStringHasLength ==
    /\ \A d \in DeclSet :
          IF d.name = "Udf_func_string"
          THEN Cardinality(Positions(d.params, ULongPtr)) = 1
          ELSE \A i \in 1..Len(d.params) : d.params[i].spec # <<"unsigned", "long">>
    /\ Done => AllDeclared

C6_Witness ==
    /\ Done /\ AllDeclared
    /\ \E d \in DeclSet :
          d.name = "Udf_func_string" /\ Positions(d.params, ULongPtr) # {}

\* C7: add, double, longlong, string and init have the UDF_ARGS pointer as
\* their second parameter, directly after the UDF_INIT pointer, and nowhere
\* else; clear, deinit and any have no UDF_ARGS parameter.
C7_ArgsSecond ==
    /\ \A d \in DeclSet :
          IF d.name \in {"Udf_func_add", "Udf_func_double", "Udf_func_longlong",
                         "Udf_func_string", "Udf_func_init"}
          THEN /\ Positions(d.params, ArgsPtr) = {2}
               /\ d.params[1] = InitPtr
          ELSE \A i \in 1..Len(d.params) : d.params[i].spec # <<"UDF_ARGS">>
    /\ Done => AllDeclared

C7_Witness ==
    /\ Done /\ AllDeclared
    /\ \E d \in DeclSet : d.name = "Udf_func_init" /\ d.params[2] = ArgsPtr
    /\ \E d \in DeclSet : d.name = "Udf_func_clear" /\ Positions(d.params, ArgsPtr) = {}

\* C8: Udf_func_any has no parameter and returns void, and every other alias
\* has at least one parameter.  The file only declares type aliases: each of
\* its declarations is a typedef, so it declares no object and holds no call,
\* and the name Udf_func_any is not used again after its declaration.
C8_AnyIsDistinct ==
    /\ \A d \in DeclSet :
          /\ d.storage = "typedef"
          /\ IF d.name = "Udf_func_any"
             THEN d.params = <<>> /\ d.ret = VoidType
             ELSE Len(d.params) >= 1
    /\ typeRefs \cap AliasNames = {}
    /\ Done => AllDeclared

C8_Witness ==
    /\ Done /\ AllDeclared
    /\ \E d \in DeclSet :
          d.name = "Udf_func_any" /\ d.params = <<>> /\ d.storage = "typedef"
    /\ typeRefs = ExternalTypeNames

\* C10: Udf_func_string has the six parameters (UDF_INIT pointer, UDF_ARGS
\* pointer, char pointer, unsigned long pointer, unsigned char pointer,
\* unsigned char pointer) and returns a char pointer; Udf_func_double and
\* Udf_func_longlong have the four parameters (UDF_INIT pointer, UDF_ARGS
\* pointer, unsigned char pointer, unsigned char pointer) and return double
\* and long long.
C10_ExactSignatures ==
    /\ \A d \in DeclSet :
          /\ d.name = "Udf_func_string" =>
                /\ d.params = <<InitPtr, ArgsPtr, CharPtr, ULongPtr, UCharPtr, UCharPtr>>
                /\ d.ret = CharPtr
          /\ d.name = "Udf_func_double" =>
                /\ d.params = <<InitPtr, ArgsPtr, UCharPtr, UCharPtr>>
                /\ d.ret = DoubleType
          /\ d.name = "Udf_func_longlong" =>
                /\ d.params = <<InitPtr, ArgsPtr, UCharPtr, UCharPtr>>
                /\ d.ret = LongLongType
    /\ Done => AllDeclared

C10_Witness ==
    /\ Done /\ AllDeclared
    /\ \E d, e \in DeclSet :
          /\ d.name = "Udf_func_double" /\ e.name = "Udf_func_longlong"
          /\ d.params = e.params /\ d.ret # e.ret
    /\ \E d \in DeclSet :
          d.name = "Udf_func_string" /\ Positions(d.params, CharPtr) = {3}
             /\ Positions(d.params, ULongPtr) = {4}

====
